---- MODULE Spec2Model ----
(***************************************************************************)
(* Position mappers and result remappers of the language server            *)
(* (lib/documents/DocumentMapper.ts).                                      *)
(*                                                                         *)
(* Three specifications share the variables below:                         *)
(*   SpecMapper    - Identity and Fragment mappers applied to positions    *)
(*   SpecSourceMap - a SourceMapDocumentMapper driven by a caller, with    *)
(*                   the source-map consumer as a nondeterministic backend *)
(*   SpecRemap     - the result remapping functions, run on a heap of     *)
(*                   objects so that aliasing and mutation are visible     *)
(***************************************************************************)
EXTENDS Integers, Sequences, FiniteSets, TLC

VARIABLES
    mapper,     \* the DocumentMapper instance: its class and its fields
    op,         \* the method or function called last ("none" before any call)
    arg,        \* the argument of that call
    result,     \* what that call returned
    origin,     \* <<p>> when arg is what getOriginalPosition(p) just returned
    consumer,   \* the SourceMapConsumer: teardowns seen, last query and answer
    calls,      \* what the caller has done to the mapper so far
    heap,       \* objects by reference, after the call
    heapBefore  \* objects by reference, when the call was made

vars == <<mapper, op, arg, result, origin, consumer, calls, heap, heapBefore>>

\* ------------------------------------------------------------------ bounds

\* Longest parent text enumerated.
MaxLen == 4

\* Largest line and character of a position handed to a source-map mapper, and
\* of a column the consumer answers with.
MaxCoord == 1

\* Most destroy() calls a caller makes on one mapper.
MaxDestroys == 2

\* Longest list of text edits in a color presentation or a document edit.
MaxEdits == 2

\* Longest list of document changes in a code action.
MaxChanges == 2

\* ------------------------------------------------------------------ values

None == "none"

Pos(l, c) == [line |-> l, character |-> c]

Sentinel == Pos(-1, -1)

Urls == {"a.txt", "b.txt"}

\* A text is a sequence of characters; NL is the line break.
NL == "\n"
Chars == {"a", NL}

Texts(n) == UNION {[1..k -> Chars] : k \in 0..n}

Max(a, b) == IF a >= b THEN a ELSE b
Min(a, b) == IF a <= b THEN a ELSE b

\* A number or null: <<n>> or <<>>.
Num(n) == <<n>>
NullNum == <<>>

\* JavaScript's `x || 0` on a number or null.
OrZero(x) == IF x = NullNum THEN 0 ELSE x[1]

\* --------------------------------------------------- text offset utilities

clamp(num, lo, hi) == Max(lo, Min(hi, num))

\* The offsets at which a line starts: 0 for a non-empty text, and the offset
\* after every line break.
LineOffsetSet(text) ==
    (IF Len(text) > 0 THEN {0} ELSE {}) \cup {i \in 1..Len(text) : text[i] = NL}

getLineOffsets(text) ==
    LET S == LineOffsetSet(text)
    IN  [k \in 1..Cardinality(S) |->
            CHOOSE e \in S : Cardinality({x \in S : x < e}) = k - 1]

positionAt(offset, text) ==
    LET o == clamp(offset, 0, Len(text))
        lineOffsets == getLineOffsets(text)
        \* the search ends on the number of line offsets that are <= o
        low == Cardinality({k \in DOMAIN lineOffsets : lineOffsets[k] <= o})
    IN  IF Len(lineOffsets) = 0
        THEN Pos(0, o)
        ELSE Pos(low - 1, o - lineOffsets[low])

offsetAt(position, text) ==
    LET lineOffsets == getLineOffsets(text)
        n == Len(lineOffsets)
    IN  IF position.line >= n THEN Len(text)
        ELSE IF position.line < 0 THEN 0
        ELSE LET lineOffset == lineOffsets[position.line + 1]
                 nextLineOffset == IF position.line + 1 < n
                                   THEN lineOffsets[position.line + 2]
                                   ELSE Len(text)
             IN  clamp(nextLineOffset, lineOffset, lineOffset + position.character)

\* ----------------------------------------------------------- IdentityMapper

IdentityMapper(url) == [kind |-> "identity", url |-> url]

IdentityGetOriginalPosition(m, generatedPosition) == generatedPosition

IdentityGetGeneratedPosition(m, originalPosition) == originalPosition

IdentityIsInGenerated(m, pos) == TRUE

\* ----------------------------------------------------------- FragmentMapper

TagInformation(content, start, end) ==
    [content |-> content, start |-> start, end |-> end]

FragmentMapper(originalText, tagInfo, url) ==
    [kind |-> "fragment", originalText |-> originalText, tagInfo |-> tagInfo,
     url |-> url]

\* Mutant: the shift by the fragment's start is forgotten.
offsetInParentUnshifted(m, offset) == offset

offsetInParent(m, offset) == m.tagInfo.start + offset

FragmentGetOriginalPosition(m, generatedPosition) ==
    LET parentOffset == offsetInParent(m, offsetAt(generatedPosition, m.tagInfo.content))
    IN  positionAt(parentOffset, m.originalText)

FragmentGetGeneratedPosition(m, originalPosition) ==
    LET fragmentOffset == offsetAt(originalPosition, m.originalText) - m.tagInfo.start
    IN  positionAt(fragmentOffset, m.tagInfo.content)

\* Mutant: the fragment's end is excluded.
FragmentIsInGeneratedOpenEnd(m, pos) ==
    LET offset == offsetAt(pos, m.originalText)
    IN  offset >= m.tagInfo.start /\ offset < m.tagInfo.end

FragmentIsInGenerated(m, pos) ==
    LET offset == offsetAt(pos, m.originalText)
    IN  offset >= m.tagInfo.start /\ offset <= m.tagInfo.end

\* ---------------------------------------------- DocumentMapper (interface)

getURL(m) == m.url

\* ------------------------------------------------ mappers and their inputs

SubText(text, start, end) ==
    [i \in 1..(end - start) |-> text[start + i]]

\* A fragment carved out of a parent: its content is the parent's text from
\* start up to end.
Fragments(text) ==
    {TagInformation(SubText(text, s, e), s, e) :
        <<s, e>> \in {se \in (0..Len(text)) \X (0..Len(text)) : se[1] <= se[2]}}

ExampleParent ==
    <<"a","b","c","L","I","N","E","2",NL,
      "f","r","a","g","m","e","n","t","-","b","o","d","y",NL,
      "e","n","d">>

ExampleMapper ==
    FragmentMapper(ExampleParent,
                   TagInformation(SubText(ExampleParent, 9, 23), 9, 22),
                   "a.txt")

FragmentMappers ==
    {FragmentMapper(t, f, "a.txt") : <<t, f>> \in
        UNION {{<<t, f>> : f \in Fragments(t)} : t \in Texts(MaxLen)}}

Coords(m) ==
    IF m = ExampleMapper THEN {-1, 0, 1, 2, 5, 13, 14}
    ELSE IF m.kind = "fragment" THEN -1..(Len(m.originalText) + 1)
    ELSE -1..MaxLen

Positions(m) == {Pos(l, c) : <<l, c>> \in Coords(m) \X Coords(m)}

\* ------------------------------------------------------------- SpecMapper

GetOriginalPosition(m, p) ==
    IF m.kind = "identity" THEN IdentityGetOriginalPosition(m, p)
    ELSE FragmentGetOriginalPosition(m, p)

GetGeneratedPosition(m, p) ==
    IF m.kind = "identity" THEN IdentityGetGeneratedPosition(m, p)
    ELSE FragmentGetGeneratedPosition(m, p)

IsInGenerated(m, p) ==
    IF m.kind = "identity" THEN IdentityIsInGenerated(m, p)
    ELSE FragmentIsInGenerated(m, p)

NoQuery == [none |-> TRUE]

NoConsumer == [destroys |-> 0, lastQuery |-> NoQuery, lastAnswer |-> NoQuery,
               queriedAfterDestroy |-> FALSE]

NoCalls == [destroy |-> 0, translatedAfterDestroy |-> FALSE]

InitMapper ==
    /\ mapper \in FragmentMappers \cup {ExampleMapper}
                    \cup {IdentityMapper(u) : u \in Urls}
    /\ arg \in Positions(mapper)
    /\ op = None
    /\ result = None
    /\ origin = <<>>
    /\ consumer = NoConsumer
    /\ calls = NoCalls
    /\ heap = <<>>
    /\ heapBefore = <<>>

CallGetOriginalPosition ==
    /\ op = None
    /\ op' = "getOriginalPosition"
    /\ result' = GetOriginalPosition(mapper, arg)
    /\ UNCHANGED <<mapper, arg, origin, consumer, calls, heap, heapBefore>>

\* Called on the position drawn at the start, or on the position the
\* preceding getOriginalPosition returned (a round trip).
CallGetGeneratedPosition ==
    /\ op \in {None, "getOriginalPosition"}
    /\ op' = "getGeneratedPosition"
    /\ arg' = IF op = None THEN arg ELSE result
    /\ origin' = IF op = None THEN <<>> ELSE <<arg>>
    /\ result' = GetGeneratedPosition(mapper, arg')
    /\ UNCHANGED <<mapper, consumer, calls, heap, heapBefore>>

CallIsInGenerated ==
    /\ op = None
    /\ op' = "isInGenerated"
    /\ result' = IsInGenerated(mapper, arg)
    /\ UNCHANGED <<mapper, arg, origin, consumer, calls, heap, heapBefore>>

CallGetURL ==
    /\ op = None
    /\ op' = "getURL"
    /\ result' = getURL(mapper)
    /\ UNCHANGED <<mapper, arg, origin, consumer, calls, heap, heapBefore>>

NextMapper ==
    \/ CallGetOriginalPosition
    \/ CallGetGeneratedPosition
    \/ CallIsInGenerated
    \/ CallGetURL

SpecMapper == InitMapper /\ [][NextMapper]_vars

\* ------------------------------------------------- claims under SpecMapper

IsFragment == mapper.kind = "fragment"

\* The offset of the call's argument in the parent text.
ArgParentOffset == offsetAt(arg, mapper.originalText)

\* A valid position of the fragment text: the position of an offset o of it
\* with 0 <= o <= end - start.
ValidFragmentPosition(m, p) ==
    \E o \in 0..(m.tagInfo.end - m.tagInfo.start) : p = positionAt(o, m.tagInfo.content)

RoundTripped == op = "getGeneratedPosition" /\ origin # <<>>

\* C2: a position mapped to the original and back is the same position: any
\* position through an Identity mapper, any valid position of the fragment
\* text through a Fragment mapper; the example fragment maps generated (0,5)
\* to original (1,5) and back to (0,5).
C2_RoundTrip ==
    /\ (RoundTripped /\ mapper.kind = "identity") => result = origin[1]
    /\ (RoundTripped /\ IsFragment /\ ValidFragmentPosition(mapper, origin[1]))
          => result = origin[1]
    /\ (mapper = ExampleMapper /\ op = "getOriginalPosition" /\ arg = Pos(0, 5))
          => result = Pos(1, 5)

C2_Witness ==
    /\ mapper = ExampleMapper
    /\ RoundTripped
    /\ origin = <<Pos(0, 5)>>
    /\ arg = Pos(1, 5)
    /\ result = Pos(0, 5)

\* C3: a Fragment mapper's isInGenerated is true exactly for the original
\* positions whose offset in the parent text lies in [start, end]: true at
\* start and at end, false at start - 1 and at end + 1.
C3_IsInGeneratedClosedInterval ==
    (op = "isInGenerated" /\ IsFragment) =>
        /\ result = (ArgParentOffset \in mapper.tagInfo.start..mapper.tagInfo.end)
        /\ ArgParentOffset = mapper.tagInfo.start => result = TRUE
        /\ ArgParentOffset = mapper.tagInfo.end => result = TRUE
        /\ ArgParentOffset = mapper.tagInfo.start - 1 => result = FALSE
        /\ ArgParentOffset = mapper.tagInfo.end + 1 => result = FALSE

C3_Witness ==
    /\ op = "isInGenerated"
    /\ IsFragment
    /\ mapper.tagInfo.start < mapper.tagInfo.end
    /\ ArgParentOffset = mapper.tagInfo.end
    /\ result = TRUE

\* C7: a Fragment mapper's getGeneratedPosition returns the sentinel (-1, -1)
\* for every original position whose parent offset lies outside [start, end].
C7_OutsideFragmentIsSentinel ==
    (op = "getGeneratedPosition" /\ IsFragment /\ origin = <<>>
        /\ ~FragmentIsInGenerated(mapper, arg))
    => result = Sentinel

\* -------------------------------------------------- SourceMapDocumentMapper

SourceMapDocumentMapper(sourceUri) == [kind |-> "sourcemap", sourceUri |-> sourceUri]

\* The consumer's answer: null, or a position whose line and column are each a
\* number or null.
NullMapped == [null |-> TRUE]

Mapped(line, column) == [line |-> line, column |-> column]

\* Mutant: the line is handed to the consumer 0-based.
OriginalPositionQueryZeroBased(m, generatedPosition) ==
    [line |-> generatedPosition.line, column |-> generatedPosition.character]

\* The argument of consumer.originalPositionFor.
OriginalPositionQuery(m, generatedPosition) ==
    [line |-> generatedPosition.line + 1, column |-> generatedPosition.character]

\* The argument of consumer.generatedPositionFor.
GeneratedPositionQuery(m, originalPosition) ==
    [line |-> originalPosition.line + 1, column |-> originalPosition.character,
     source |-> m.sourceUri]

\* What getOriginalPosition returns on the consumer's answer.
SourceMapOriginalPosition(mapped) ==
    IF mapped = NullMapped THEN Sentinel
    ELSE Pos(OrZero(mapped.line) - 1, OrZero(mapped.column))

\* What getGeneratedPosition returns on the consumer's answer.
SourceMapGeneratedPosition(mapped) ==
    IF mapped = NullMapped THEN Sentinel
    ELSE LET res == Pos(OrZero(mapped.line) - 1, OrZero(mapped.column))
         IN  IF res.line < 0 THEN res ELSE res

SourceMapIsInGenerated(mapped) ==
    LET generated == SourceMapGeneratedPosition(mapped)
    IN  generated.line >= 0

SourceMapGetURL(m) == m.sourceUri

\* Mutant: destroy() forgets the consumer.
ConsumerKept(c) == c

\* consumer.destroy(), as destroy() calls it.
SourceMapDestroy(c) == [c EXCEPT !.destroys = @ + 1]

\* ----------------------------------------------------------- SpecSourceMap

SMCoords == 0..MaxCoord

SMPositions == {Pos(l, c) : <<l, c>> \in SMCoords \X SMCoords} \cup {Sentinel}

Answers ==
    {NullMapped} \cup
    {Mapped(l, c) : <<l, c>> \in
        ({NullNum} \cup {Num(n) : n \in 0..(MaxCoord + 1)})
        \X ({NullNum} \cup {Num(n) : n \in SMCoords})}

\* The consumer is asked query and answers mapped.
Queried(c, query, mapped) ==
    [c EXCEPT !.lastQuery = query,
              !.lastAnswer = mapped,
              !.queriedAfterDestroy = @ \/ c.destroys > 0]

Translated(k) == [k EXCEPT !.translatedAfterDestroy = @ \/ k.destroy > 0]

InitSourceMap ==
    /\ mapper \in {SourceMapDocumentMapper(u) : u \in Urls}
    /\ op = None
    /\ arg = None
    /\ result = None
    /\ origin = <<>>
    /\ consumer = NoConsumer
    /\ calls = NoCalls
    /\ heap = <<>>
    /\ heapBefore = <<>>

SMGetOriginalPosition ==
    \E p \in SMPositions, mapped \in Answers :
        /\ op' = "getOriginalPosition"
        /\ arg' = p
        /\ consumer' = Queried(consumer, OriginalPositionQuery(mapper, p), mapped)
        /\ result' = SourceMapOriginalPosition(mapped)
        /\ calls' = Translated(calls)
        /\ UNCHANGED <<mapper, origin, heap, heapBefore>>

SMGetGeneratedPosition ==
    \E p \in SMPositions, mapped \in Answers :
        /\ op' = "getGeneratedPosition"
        /\ arg' = p
        /\ consumer' = Queried(consumer, GeneratedPositionQuery(mapper, p), mapped)
        /\ result' = SourceMapGeneratedPosition(mapped)
        /\ calls' = Translated(calls)
        /\ UNCHANGED <<mapper, origin, heap, heapBefore>>

SMIsInGenerated ==
    \E p \in SMPositions, mapped \in Answers :
        /\ op' = "isInGenerated"
        /\ arg' = p
        /\ consumer' = Queried(consumer, GeneratedPositionQuery(mapper, p), mapped)
        /\ result' = SourceMapIsInGenerated(mapped)
        /\ calls' = Translated(calls)
        /\ UNCHANGED <<mapper, origin, heap, heapBefore>>

SMGetURL ==
    /\ op' = "getURL"
    /\ arg' = None
    /\ result' = SourceMapGetURL(mapper)
    /\ UNCHANGED <<mapper, origin, consumer, calls, heap, heapBefore>>

\* destroy() is not guarded: a caller may call it again, up to the bound.
SMDestroy ==
    /\ calls.destroy < MaxDestroys
    /\ op' = "destroy"
    /\ arg' = None
    /\ result' = None
    /\ consumer' = SourceMapDestroy(consumer)
    /\ calls' = [calls EXCEPT !.destroy = @ + 1]
    /\ UNCHANGED <<mapper, origin, heap, heapBefore>>

NextSourceMap ==
    \/ SMGetOriginalPosition
    \/ SMGetGeneratedPosition
    \/ SMIsInGenerated
    \/ SMGetURL
    \/ SMDestroy

SpecSourceMap == InitSourceMap /\ [][NextSourceMap]_vars

\* ---------------------------------------------- claims under SpecSourceMap

LastAnswerIsMiss ==
    \/ consumer.lastAnswer = NullMapped
    \/ (consumer.lastAnswer # NullMapped /\ consumer.lastAnswer.line = Num(0))

\* C1: when the consumer answers null or a line of 0, getOriginalPosition and
\* getGeneratedPosition return exactly the sentinel (-1, -1), whatever column
\* came with the answer, and isInGenerated returns false.
C1_MissIsSentinel ==
    /\ (op \in {"getOriginalPosition", "getGeneratedPosition"} /\ LastAnswerIsMiss)
          => result = Sentinel
    /\ (op = "isInGenerated" /\ LastAnswerIsMiss) => result = FALSE

LastAnswerIsHit ==
    /\ consumer.lastAnswer # NullMapped
    /\ consumer.lastAnswer.line # NullNum
    /\ consumer.lastAnswer.line[1] >= 1
    /\ consumer.lastAnswer.column # NullNum

\* C6: getOriginalPosition asks the consumer for (line + 1, character),
\* getGeneratedPosition for (line + 1, character) with the mapper's URL as the
\* source; an answer of line L >= 1 and column C comes back as (L - 1, C), so
\* never with a negative line.
C6_ConventionConversion ==
    /\ op = "getOriginalPosition" =>
          consumer.lastQuery = [line |-> arg.line + 1, column |-> arg.character]
    /\ op = "getGeneratedPosition" =>
          consumer.lastQuery = [line |-> arg.line + 1, column |-> arg.character,
                                source |-> SourceMapGetURL(mapper)]
    /\ (op \in {"getOriginalPosition", "getGeneratedPosition"} /\ LastAnswerIsHit)
          => /\ result = Pos(consumer.lastAnswer.line[1] - 1,
                             consumer.lastAnswer.column[1])
             /\ result.line >= 0

C6_Witness ==
    /\ op = "getOriginalPosition"
    /\ arg = Pos(1, 1)
    /\ consumer.lastQuery = [line |-> 2, column |-> 1]
    /\ consumer.lastAnswer = Mapped(Num(1), Num(1))
    /\ result = Pos(0, 1)

\* C10: the consumer has been torn down exactly as often as destroy() was
\* called on the mapper, whatever else was called; after one destroy() that
\* followed the last translation call, the consumer has been torn down once
\* and has answered no query since.
C10_DestroyForwardedOnce ==
    /\ consumer.destroys = calls.destroy
    /\ (calls.destroy = 1 /\ ~calls.translatedAfterDestroy)
          => (consumer.destroys = 1 /\ ~consumer.queriedAfterDestroy)

C10_Witness ==
    /\ op = "destroy"
    /\ calls.destroy = 1
    /\ consumer.destroys = 1
    /\ consumer.lastQuery # NoQuery
    /\ ~consumer.queriedAfterDestroy

\* ------------------------------------------------ result objects on a heap

\* A heap is a sequence of objects and a reference is an index into it. An
\* object is a record; an array is an object holding the references of its
\* items. Positions, ranges and document identifiers are plain values: no
\* function here writes into one.

Undefined == [undefined |-> TRUE]

Range(start, end) == [start |-> start, end |-> end]

Array(items) == [items |-> items]

Alloc(h, obj) == [heap |-> Append(h, obj), ref |-> Len(h) + 1]

\* Mutant: the object itself is used where a copy is wanted.
AliasObject(h, ref) == [heap |-> h, ref |-> ref]

\* { ...obj }: a new object with obj's own fields.
CopyObject(h, ref) == Alloc(h, h[ref])

\* { ...obj, field: value }
SpreadWith(obj, field, value) ==
    [f \in DOMAIN obj \cup {field} |-> IF f = field THEN value ELSE obj[f]]

mapRangeToOriginal(fragment, range) ==
    Range(GetOriginalPosition(fragment, range.start),
          GetOriginalPosition(fragment, range.end))

mapTextEditToOriginal(h, fragment, edit) ==
    Alloc(h, SpreadWith(h[edit], "range", mapRangeToOriginal(fragment, h[edit].range)))

\* A mapped list so far: the heap, and the references of the mapped items.
Prepend(ref, r) == [heap |-> r.heap, refs |-> <<ref>> \o r.refs]

\* The array a mapped list is returned as.
AllocArray(m) == Alloc(m.heap, Array(m.refs))

\* item.field = r, on the heap r was made in.
SetField(item, field, r) ==
    [heap |-> [r.heap EXCEPT ![item.ref][field] = r.ref], ref |-> item.ref]

\* edits.map((edit) => mapTextEditToOriginal(fragment, edit)), item by item.
RECURSIVE MapTextEdits(_, _, _)
MapTextEditsAfter(first, fragment, rest) ==
    Prepend(first.ref, MapTextEdits(first.heap, fragment, rest))

MapTextEdits(h, fragment, refs) ==
    IF refs = <<>> THEN [heap |-> h, refs |-> <<>>]
    ELSE MapTextEditsAfter(mapTextEditToOriginal(h, fragment, Head(refs)),
                           fragment, Tail(refs))

MapTextEditArray(h, fragment, array) ==
    AllocArray(MapTextEdits(h, fragment, h[array].items))

\* if (item.textEdit) { item.textEdit = mapTextEditToOriginal(...) }
MapOwnTextEdit(item, fragment) ==
    IF "textEdit" \in DOMAIN item.heap[item.ref]
    THEN SetField(item, "textEdit",
                  mapTextEditToOriginal(item.heap, fragment,
                                        item.heap[item.ref].textEdit))
    ELSE item

\* if (item.additionalTextEdits) { item.additionalTextEdits = ....map(...) }
MapOwnAdditionalTextEdits(item, fragment) ==
    IF "additionalTextEdits" \in DOMAIN item.heap[item.ref]
    THEN SetField(item, "additionalTextEdits",
                  MapTextEditArray(item.heap, fragment,
                                   item.heap[item.ref].additionalTextEdits))
    ELSE item

mapColorPresentationToOriginal(h, fragment, presentation) ==
    MapOwnAdditionalTextEdits(
        MapOwnTextEdit(CopyObject(h, presentation), fragment), fragment)

\* LocationLink.create: an object of these four fields, the last one undefined
\* when no origin selection range is given.
LocationLinkCreate(targetUri, targetRange, targetSelectionRange, originSelectionRange) ==
    [targetUri |-> targetUri, targetRange |-> targetRange,
     targetSelectionRange |-> targetSelectionRange,
     originSelectionRange |-> originSelectionRange]

\* Mutant: the target ranges are mapped whatever document they point into.
mapLocationLinkToOriginalAnyTarget(h, fragment, def) ==
    Alloc(h, LocationLinkCreate(
        h[def].targetUri,
        mapRangeToOriginal(fragment, h[def].targetRange),
        mapRangeToOriginal(fragment, h[def].targetSelectionRange),
        IF "originSelectionRange" \in DOMAIN h[def]
        THEN mapRangeToOriginal(fragment, h[def].originSelectionRange)
        ELSE Undefined))

mapLocationLinkToOriginal(h, fragment, def) ==
    Alloc(h, LocationLinkCreate(
        h[def].targetUri,
        IF getURL(fragment) = h[def].targetUri
        THEN mapRangeToOriginal(fragment, h[def].targetRange)
        ELSE h[def].targetRange,
        IF getURL(fragment) = h[def].targetUri
        THEN mapRangeToOriginal(fragment, h[def].targetSelectionRange)
        ELSE h[def].targetSelectionRange,
        IF "originSelectionRange" \in DOMAIN h[def]
        THEN mapRangeToOriginal(fragment, h[def].originSelectionRange)
        ELSE Undefined))

\* TextDocumentEdit.create, on the heap the edits were mapped in.
TextDocumentEditCreate(textDocument, edits) ==
    [textDocument |-> textDocument, edits |-> edits]

AllocTextDocumentEdit(textDocument, a) ==
    Alloc(a.heap, TextDocumentEditCreate(textDocument, a.ref))

\* Mutant: the edits are mapped whatever document owns them.
mapTextDocumentEditToOriginalAnyOwner(h, fragment, edit) ==
    AllocTextDocumentEdit(h[edit].textDocument,
                          MapTextEditArray(h, fragment, h[edit].edits))

mapTextDocumentEditToOriginal(h, fragment, edit) ==
    IF h[edit].textDocument.uri # getURL(fragment)
    THEN [heap |-> h, ref |-> edit]
    ELSE AllocTextDocumentEdit(h[edit].textDocument,
                               MapTextEditArray(h, fragment, h[edit].edits))

\* documentChanges.map((edit) => mapTextDocumentEditToOriginal(fragment, edit))
RECURSIVE MapTextDocumentEdits(_, _, _)
MapTextDocumentEditsAfter(first, fragment, rest) ==
    Prepend(first.ref, MapTextDocumentEdits(first.heap, fragment, rest))

MapTextDocumentEdits(h, fragment, refs) ==
    IF refs = <<>> THEN [heap |-> h, refs |-> <<>>]
    ELSE MapTextDocumentEditsAfter(
             mapTextDocumentEditToOriginal(h, fragment, Head(refs)),
             fragment, Tail(refs))

\* The { documentChanges: ... } object handed to CodeAction.create.
AllocWorkspaceEdit(a) == Alloc(a.heap, [documentChanges |-> a.ref])

\* CodeAction.create(title, edit, kind): the title, the edit, and the kind
\* when one is given.
CodeActionCreate(codeAction, e) ==
    Alloc(e.heap,
          IF "kind" \in DOMAIN codeAction
          THEN [title |-> codeAction.title, edit |-> e.ref, kind |-> codeAction.kind]
          ELSE [title |-> codeAction.title, edit |-> e.ref])

mapCodeActionToOriginal(h, fragment, codeAction) ==
    CodeActionCreate(
        h[codeAction],
        AllocWorkspaceEdit(AllocArray(
            MapTextDocumentEdits(h, fragment,
                                 h[h[h[codeAction].edit].documentChanges].items))))

\* ----------------------------------------------- inputs of the remappers

\* "a\naa\na", with the fragment "aa\na" starting at offset 2: generated line
\* l is original line l + 1.
RemapParent == <<"a", NL, "a", "a", NL, "a">>

RemapMappers ==
    {FragmentMapper(RemapParent, TagInformation(SubText(RemapParent, 2, 6), 2, 6), u) :
        u \in Urls}

Before(p, q) == p.line < q.line \/ (p.line = q.line /\ p.character <= q.character)

RemapPositions == {Pos(0, 0), Pos(0, 2), Pos(1, 0)}

Ranges == {Range(p, q) : <<p, q>> \in
              {pq \in RemapPositions \X RemapPositions : Before(pq[1], pq[2])}}

TextEdits == {[range |-> r, newText |-> "x"] : r \in Ranges}

SeqsUpTo(S, n) == UNION {[1..k -> S] : k \in 0..n}

\* An optional value: <<>> when absent, <<v>> when present.
Optional(S) == {<<>>} \cup {<<v>> : v \in S}

\* The objects of a list of text edits, then the array of them.
BuildEditArray(h, edits) ==
    Alloc(h \o edits, Array([i \in 1..Len(edits) |-> Len(h) + i]))

BuildColorPresentation(textEdit, additionalTextEdits) ==
    LET a == IF additionalTextEdits # <<>>
             THEN BuildEditArray(<<>>, additionalTextEdits[1])
             ELSE [heap |-> <<>>, ref |-> 0]
        t == IF textEdit # <<>> THEN Alloc(a.heap, textEdit[1])
             ELSE [heap |-> a.heap, ref |-> 0]
        fields == {"label"}
                    \cup (IF textEdit # <<>> THEN {"textEdit"} ELSE {})
                    \cup (IF additionalTextEdits # <<>> THEN {"additionalTextEdits"} ELSE {})
    IN  Alloc(t.heap,
              [f \in fields |-> CASE f = "label" -> "red"
                                  [] f = "textEdit" -> t.ref
                                  [] OTHER -> a.ref])

ColorPresentations ==
    {BuildColorPresentation(t, a) :
        <<t, a>> \in Optional(TextEdits) \X Optional(SeqsUpTo(TextEdits, MaxEdits))}

BuildLocationLink(targetUri, targetRange, targetSelectionRange, originSelectionRange) ==
    Alloc(<<>>,
          IF originSelectionRange = <<>>
          THEN [targetUri |-> targetUri, targetRange |-> targetRange,
                targetSelectionRange |-> targetSelectionRange]
          ELSE [targetUri |-> targetUri, targetRange |-> targetRange,
                targetSelectionRange |-> targetSelectionRange,
                originSelectionRange |-> originSelectionRange[1]])

LocationLinks ==
    {BuildLocationLink(x[1], x[2], x[3], x[4]) :
        x \in Urls \X Ranges \X Ranges \X Optional(Ranges)}

VersionedTextDocumentIdentifier(uri) == [uri |-> uri, version |-> 1]

BuildTextDocumentEdit(h, uri, edits) ==
    LET a == BuildEditArray(h, edits)
    IN  Alloc(a.heap, TextDocumentEditCreate(VersionedTextDocumentIdentifier(uri), a.ref))

TextDocumentEdits ==
    {BuildTextDocumentEdit(<<>>, u, es) :
        <<u, es>> \in Urls \X SeqsUpTo(TextEdits, MaxEdits)}

\* The document changes a code action is drawn with: one or two edits each.
Changes ==
    {[uri |-> u, edits |-> es] : <<u, es>> \in
        Urls \X {<<[range |-> Range(Pos(0, 0), Pos(1, 0)), newText |-> "x"]>>,
                 <<[range |-> Range(Pos(0, 0), Pos(0, 2)), newText |-> "x"],
                   [range |-> Range(Pos(0, 2), Pos(1, 0)), newText |-> "x"]>>}}

RECURSIVE BuildChanges(_, _)
BuildChanges(h, changes) ==
    IF changes = <<>> THEN [heap |-> h, refs |-> <<>>]
    ELSE LET first == BuildTextDocumentEdit(h, Head(changes).uri, Head(changes).edits)
             rest == BuildChanges(first.heap, Tail(changes))
         IN  [heap |-> rest.heap, refs |-> <<first.ref>> \o rest.refs]

BuildCodeAction(changes, kind, isPreferred) ==
    LET c == BuildChanges(<<>>, changes)
        a == Alloc(c.heap, Array(c.refs))
        e == Alloc(a.heap, [documentChanges |-> a.ref])
        fields == {"title", "edit"}
                    \cup (IF kind # <<>> THEN {"kind"} ELSE {})
                    \cup (IF isPreferred # <<>> THEN {"isPreferred"} ELSE {})
    IN  Alloc(e.heap,
              [f \in fields |-> CASE f = "title" -> "fix"
                                  [] f = "edit" -> e.ref
                                  [] f = "kind" -> kind[1]
                                  [] OTHER -> isPreferred[1]])

CodeActions ==
    {BuildCodeAction(x[1], x[2], x[3]) :
        x \in SeqsUpTo(Changes, MaxChanges) \X Optional({"quickfix"}) \X Optional({TRUE})}

\* --------------------------------------------------------------- SpecRemap

InitRemap ==
    /\ mapper \in RemapMappers
    /\ \E kind \in {"ColorPresentation", "LocationLink", "TextDocumentEdit", "CodeAction"} :
       \E input \in (CASE kind = "ColorPresentation" -> ColorPresentations
                       [] kind = "LocationLink" -> LocationLinks
                       [] kind = "TextDocumentEdit" -> TextDocumentEdits
                       [] OTHER -> CodeActions) :
          /\ heap = input.heap
          /\ arg = [kind |-> kind, ref |-> input.ref]
    /\ heapBefore = heap
    /\ op = None
    /\ result = None
    /\ origin = <<>>
    /\ consumer = NoConsumer
    /\ calls = NoCalls

Returned(name, r) ==
    /\ op' = name
    /\ heap' = r.heap
    /\ result' = r.ref
    /\ UNCHANGED <<mapper, arg, origin, consumer, calls, heapBefore>>

CallMapColorPresentationToOriginal ==
    /\ op = None
    /\ arg.kind = "ColorPresentation"
    /\ Returned("mapColorPresentationToOriginal",
                mapColorPresentationToOriginal(heap, mapper, arg.ref))

CallMapLocationLinkToOriginal ==
    /\ op = None
    /\ arg.kind = "LocationLink"
    /\ Returned("mapLocationLinkToOriginal",
                mapLocationLinkToOriginal(heap, mapper, arg.ref))

CallMapTextDocumentEditToOriginal ==
    /\ op = None
    /\ arg.kind = "TextDocumentEdit"
    /\ Returned("mapTextDocumentEditToOriginal",
                mapTextDocumentEditToOriginal(heap, mapper, arg.ref))

CallMapCodeActionToOriginal ==
    /\ op = None
    /\ arg.kind = "CodeAction"
    /\ Returned("mapCodeActionToOriginal",
                mapCodeActionToOriginal(heap, mapper, arg.ref))

NextRemap ==
    \/ CallMapColorPresentationToOriginal
    \/ CallMapLocationLinkToOriginal
    \/ CallMapTextDocumentEditToOriginal
    \/ CallMapCodeActionToOriginal

SpecRemap == InitRemap /\ [][NextRemap]_vars

\* -------------------------------------------------- claims under SpecRemap

\* The text edits an array holds, in order.
TextEditsAt(h, array) == [i \in 1..Len(h[array].items) |-> h[h[array].items[i]]]

\* out is range with each end passed through getOriginalPosition.
RangeMapped(out, range) ==
    /\ out.start = GetOriginalPosition(mapper, range.start)
    /\ out.end = GetOriginalPosition(mapper, range.end)

\* out is edit with its range mapped and everything else as it was.
TextEditMapped(out, edit) ==
    /\ DOMAIN out = DOMAIN edit
    /\ RangeMapped(out.range, edit.range)
    /\ \A f \in DOMAIN edit \ {"range"} : out[f] = edit[f]

\* outs are edits, one for one and in order, each mapped.
TextEditsMapped(outs, edits) ==
    /\ Len(outs) = Len(edits)
    /\ \A i \in 1..Len(edits) : TextEditMapped(outs[i], edits[i])

\* No object the caller handed in has been written to.
InputUntouched == \A r \in DOMAIN heapBefore : heap[r] = heapBefore[r]

\* The document edit out (after the call) is the document edit in (before
\* it), remapped if the mapper's document owns it and unchanged otherwise.
TextDocumentEditRemapped(out, in) ==
    /\ DOMAIN heap[out] = DOMAIN heapBefore[in]
    /\ heap[out].textDocument = heapBefore[in].textDocument
    /\ IF heapBefore[in].textDocument.uri = getURL(mapper)
       THEN TextEditsMapped(TextEditsAt(heap, heap[out].edits),
                            TextEditsAt(heapBefore, heapBefore[in].edits))
       ELSE TextEditsAt(heap, heap[out].edits)
              = TextEditsAt(heapBefore, heapBefore[in].edits)

\* C4: a location link into the mapper's document has its target range and
\* target selection range mapped end by end; a link into another document
\* keeps both as they were; the target URI is kept, and the origin selection
\* range is mapped when there is one and absent when there is none.
C4_LocationLink ==
    op = "mapLocationLinkToOriginal" =>
        LET in == heapBefore[arg.ref]
            out == heap[result]
        IN  /\ out.targetUri = in.targetUri
            /\ in.targetUri = getURL(mapper) =>
                  /\ RangeMapped(out.targetRange, in.targetRange)
                  /\ RangeMapped(out.targetSelectionRange, in.targetSelectionRange)
            /\ in.targetUri # getURL(mapper) =>
                  /\ out.targetRange = in.targetRange
                  /\ out.targetSelectionRange = in.targetSelectionRange
            /\ "originSelectionRange" \in DOMAIN in =>
                  RangeMapped(out.originSelectionRange, in.originSelectionRange)
            /\ "originSelectionRange" \notin DOMAIN in =>
                  out.originSelectionRange = Undefined

C4_Witness ==
    /\ op = "mapLocationLinkToOriginal"
    /\ heapBefore[arg.ref].targetUri = getURL(mapper)
    /\ heapBefore[arg.ref].targetRange = Range(Pos(0, 0), Pos(1, 0))
    /\ heap[result].targetRange = Range(Pos(1, 0), Pos(2, 0))
    /\ heapBefore[arg.ref].targetSelectionRange = Range(Pos(0, 0), Pos(0, 2))
    /\ heap[result].targetSelectionRange = Range(Pos(1, 0), Pos(1, 2))
    /\ "originSelectionRange" \in DOMAIN heapBefore[arg.ref]

\* C5: a document edit owned by the mapper's document comes back with the
\* same document and the same edits in number and order, each with its range
\* mapped and its new text kept; one owned by another document comes back
\* with every field as it was.
C5_TextDocumentEdit ==
    op = "mapTextDocumentEditToOriginal" => TextDocumentEditRemapped(result, arg.ref)

C5_Witness ==
    /\ op = "mapTextDocumentEditToOriginal"
    /\ heapBefore[arg.ref].textDocument.uri = getURL(mapper)
    /\ Len(heapBefore[heapBefore[arg.ref].edits].items) = 2
    /\ TextEditsAt(heap, heap[result].edits)[1].range = Range(Pos(1, 0), Pos(1, 2))
    /\ TextEditsAt(heap, heap[result].edits)[2].range = Range(Pos(1, 2), Pos(2, 0))

\* C8: the code action returned equals the one given in every field of the
\* action and of its edit, except that the document changes owned by the
\* mapper's document have the ranges of their text edits mapped; the action
\* given is not written to.
C8_CodeActionStructuralCopy ==
    op = "mapCodeActionToOriginal" =>
        LET in == heapBefore[arg.ref]
            out == heap[result]
            inEdit == heapBefore[in.edit]
            outEdit == heap[out.edit]
            inChanges == heapBefore[inEdit.documentChanges].items
            outChanges == heap[outEdit.documentChanges].items
        IN  /\ DOMAIN out = DOMAIN in
            /\ \A f \in DOMAIN in \ {"edit"} : out[f] = in[f]
            /\ DOMAIN outEdit = DOMAIN inEdit
            /\ Len(outChanges) = Len(inChanges)
            /\ \A i \in 1..Len(inChanges) :
                  TextDocumentEditRemapped(outChanges[i], inChanges[i])
            /\ InputUntouched

\* C9: the color presentation returned has the text edit and every
\* additional text edit of the one given, in number and order, each with its
\* range mapped and its new text kept; a field the one given lacks stays
\* absent, every other field is equal, and the presentation given, its text
\* edit and its list of additional text edits are not written to.
C9_ColorPresentation ==
    op = "mapColorPresentationToOriginal" =>
        LET in == heapBefore[arg.ref]
            out == heap[result]
        IN  /\ DOMAIN out = DOMAIN in
            /\ \A f \in DOMAIN in \ {"textEdit", "additionalTextEdits"} : out[f] = in[f]
            /\ "textEdit" \in DOMAIN in =>
                  TextEditMapped(heap[out.textEdit], heapBefore[in.textEdit])
            /\ "additionalTextEdits" \in DOMAIN in =>
                  TextEditsMapped(TextEditsAt(heap, out.additionalTextEdits),
                                  TextEditsAt(heapBefore, in.additionalTextEdits))
            /\ InputUntouched

C9_Witness ==
    /\ op = "mapColorPresentationToOriginal"
    /\ "textEdit" \in DOMAIN heapBefore[arg.ref]
    /\ "additionalTextEdits" \in DOMAIN heapBefore[arg.ref]
    /\ heapBefore[heapBefore[arg.ref].textEdit].range = Range(Pos(0, 2), Pos(1, 0))
    /\ heap[heap[result].textEdit].range = Range(Pos(1, 2), Pos(2, 0))
    /\ Len(heap[heap[result].additionalTextEdits].items) = 2
    /\ TextEditsAt(heap, heap[result].additionalTextEdits)[1].range
          = Range(Pos(1, 0), Pos(1, 2))
    /\ TextEditsAt(heap, heap[result].additionalTextEdits)[2].range
          = Range(Pos(1, 0), Pos(2, 0))
    /\ heap[heap[result].textEdit].newText = "x"
    /\ heap[result].label = "red"
    /\ result # arg.ref

====
